---- MODULE Spec2Model ----
(***************************************************************************)
(* gptschema: conversion of a Go type description into a JSON Schema.      *)
(* The recursion JsonTypeOf / structProperties / parseArrayItemType of     *)
(* internal/converter.go is modelled as a machine with an explicit call    *)
(* stack; one action is one function body up to its next call or return.   *)
(*                                                                         *)
(* Go strings that come from declarations (field names, json tags) are     *)
(* sequences of chunks: a chunk is "," or a piece of text without a comma. *)
(* A reflect.Type is a sequence of constructors ("ptr", "slice", "array")  *)
(* ending in a kind name or in the identity of a struct type.              *)
(* A Go interface{} value is a record [dyn, val]: its dynamic type and its *)
(* value, so that reflect.DeepEqual is TLA+ equality.                      *)
(***************************************************************************)
EXTENDS Integers, Sequences, FiniteSets, TLC

VARIABLES structs, input, opts, visited, stack, ret, status, parked

vars == <<structs, input, opts, visited, stack, ret, status, parked>>

----------------------------------------------------------------------------
(* Errors, options *)

ErrUnsupportedType == "unsupported type for JSON schema"

ErrCircularRef == "circular reference detected"

NoError == "nil"

DefaultMaxDepth == 50

DefaultOptions == [AllowAdditionalProperty |-> FALSE, MaxDepth |-> DefaultMaxDepth]

----------------------------------------------------------------------------
(* reflect.Type *)

IntKinds == {"int", "int8", "int16", "int32", "int64",
             "uint", "uint8", "uint16", "uint32", "uint64"}

FloatKinds == {"float32", "float64"}

OtherKinds == {"map", "chan", "func", "interface", "complex64", "complex128",
               "uintptr", "unsafe.Pointer"}

Constructors == {"ptr", "slice", "array"}

BaseKinds == {"string", "bool"} \cup IntKinds \cup FloatKinds \cup OtherKinds

\* Named types whose underlying type is not a struct: type MyInt int,
\* type S []S, type Q1 *Q2, type Q2 *Q1.
NamedTypes ==
    [MyInt |-> <<"int">>,
     S |-> <<"slice", "S">>,
     Q1 |-> <<"ptr", "Q2">>,
     Q2 |-> <<"ptr", "Q1">>]

Underlying(t) == IF t[1] \in DOMAIN NamedTypes THEN NamedTypes[t[1]] ELSE t

Kind(t) ==
    LET u == Underlying(t) IN
    IF u[1] \in Constructors THEN u[1]
    ELSE IF u[1] \in BaseKinds THEN u[1]
    ELSE "struct"

Elem(t) == Tail(Underlying(t))

NumField(t) == Len(structs[t[1]])

Field(t, i) == structs[t[1]][i]

derefStep(t) == Elem(t)

----------------------------------------------------------------------------
(* Go strings as chunk sequences; strings.Split(s, ",") *)

Comma == ","

Omitempty == <<"omitempty">>

SkipTag == <<"-">>

RECURSIVE Split(_)
Split(s) ==
    IF s = <<>> THEN << <<>> >>
    ELSE LET rest == Split(Tail(s)) IN
         IF Head(s) = Comma THEN << <<>> >> \o rest
         ELSE << <<Head(s)>> \o Head(rest) >> \o Tail(rest)

parseJSONTagAnySegment(fieldName, tag) ==
    IF tag = <<>> THEN [name |-> fieldName, optional |-> FALSE]
    ELSE LET parts == Split(tag) IN
         [name |-> IF parts[1] # <<>> THEN parts[1] ELSE fieldName,
          optional |-> \E k \in 1..Len(parts) : parts[k] = Omitempty]

parseJSONTag(fieldName, tag) ==
    IF tag = <<>> THEN [name |-> fieldName, optional |-> FALSE]
    ELSE LET parts == Split(tag) IN
         [name |-> IF parts[1] # <<>> THEN parts[1] ELSE fieldName,
          optional |-> \E k \in 2..Len(parts) : parts[k] = Omitempty]

----------------------------------------------------------------------------
(* interface{} values and Schema (map[string]interface{}) values *)

Nil == [dyn |-> "nil", val |-> "nil"]

StrV(s) == [dyn |-> "string", val |-> s]

StrsV(l) == [dyn |-> "[]string", val |-> l]

BoolV(b) == [dyn |-> "bool", val |-> b]

SchemaV(m) == [dyn |-> "Schema", val |-> m]

SchemasV(l) == [dyn |-> "[]Schema", val |-> l]

EmptyMap == [k \in {} |-> Nil]

TypeSchema(s) == "type" :> StrV(s)

PrimitiveNameAllNumbers(kind) ==
    IF kind = "string" THEN "string"
    ELSE IF kind = "bool" THEN "boolean"
    ELSE "number"

PrimitiveName(kind) ==
    IF kind = "string" THEN "string"
    ELSE IF kind = "bool" THEN "boolean"
    ELSE IF kind \in IntKinds THEN "integer"
    ELSE "number"

IsPrimitive(kind) == kind \in {"string", "bool"} \cup IntKinds \cup FloatKinds

IsSequence(kind) == kind \in {"slice", "array"}

WrapItemBare(schema) == schema

WrapItem(schema) ==
    IF schema.dyn = "string" THEN SchemaV(TypeSchema(schema.val)) ELSE schema

ArraySchema(items) == ("type" :> StrV("array")) @@ ("items" :> items)

ShapeFieldIgnoringOptional(v, isOptional) ==
    IF v.dyn = "string" THEN SchemaV(TypeSchema(v.val)) ELSE v

ShapeField(v, isOptional) ==
    IF v.dyn = "string"
    THEN IF isOptional
         THEN SchemaV("type" :> StrsV(<<v.val, "null">>))
         ELSE SchemaV(TypeSchema(v.val))
    ELSE IF v.dyn = "Schema"
    THEN IF isOptional
         THEN SchemaV("anyOf" :> SchemasV(<<v.val, TypeSchema("null")>>))
         ELSE v
    ELSE v

SetProp(props, k, v) == (k :> v) @@ props

AppendRequiredUnlessOptional(required, name, isOptional) ==
    IF isOptional THEN required ELSE Append(required, name)

PrependRequired(required, name, isOptional) == <<name>> \o required

AppendRequired(required, name, isOptional) == Append(required, name)

MergePropsKeepingParent(props, embeddedProps) == props @@ embeddedProps

MergeProps(props, embeddedProps) == embeddedProps @@ props

ObjectSchemaAlwaysRequired(props, required, o) ==
    ("type" :> StrV("object"))
    @@ ("properties" :> SchemaV(props))
    @@ ("additionalProperties" :> BoolV(o.AllowAdditionalProperty))
    @@ ("required" :> StrsV(required))

ObjectSchemaOpen(props, required, o) ==
    LET schema == ("type" :> StrV("object")) @@ ("properties" :> SchemaV(props))
    IN IF Len(required) > 0
       THEN ("required" :> StrsV(required)) @@ schema
       ELSE schema

ObjectSchema(props, required, o) ==
    LET schema == ("type" :> StrV("object"))
                  @@ ("properties" :> SchemaV(props))
                  @@ ("additionalProperties" :> BoolV(o.AllowAdditionalProperty))
    IN IF Len(required) > 0
       THEN ("required" :> StrsV(required)) @@ schema
       ELSE schema

DepthExceededLate(depth, o) == depth > o.MaxDepth + 1

DepthExceededInclusive(depth, o) == depth >= o.MaxDepth

DepthExceeded(depth, o) == depth > o.MaxDepth

MarkNothing(v, t) == v

Mark(v, t) == v \cup {t}

UnmarkNothing(v, t) == v

Unmark(v, t) == v \ {t}

----------------------------------------------------------------------------
(* The call stack *)

NoRet == [set |-> FALSE, val |-> Nil, props |-> EmptyMap, required |-> <<>>,
          err |-> NoError, name |-> <<>>, optional |-> FALSE]

Result(val, err) == [NoRet EXCEPT !.set = TRUE, !.val = val, !.err = err]

PropsResult(props, required, err) ==
    [NoRet EXCEPT !.set = TRUE, !.props = props, !.required = required, !.err = err]

TagResult(name, optional) ==
    [NoRet EXCEPT !.set = TRUE, !.name = name, !.optional = optional]

Frame(fn, t, depth, v) ==
    [fn |-> fn, t |-> t, depth |-> depth, pc |-> "enter", i |-> 1,
     props |-> EmptyMap, required |-> <<>>, fieldName |-> <<>>,
     isOptional |-> FALSE, marked |-> FALSE, entered |-> v]

Top == stack[Len(stack)]

Pop == SubSeq(stack, 1, Len(stack) - 1)

SetTop(f) == [stack EXCEPT ![Len(stack)] = f]

At(fn, pc) ==
    /\ status = "running"
    /\ stack # <<>>
    /\ Top.fn = fn
    /\ Top.pc = pc

Return(r) ==
    /\ stack' = Pop
    /\ ret' = r
    /\ status' = IF Len(stack) = 1 THEN "returned" ELSE status

Call(caller, callee) ==
    /\ stack' = Append(SetTop(caller), callee)
    /\ ret' = NoRet

----------------------------------------------------------------------------
(* JsonTypeOf: internal/converter.go *)

JsonTypeOfDepthExceededLeafFirst ==
    /\ At("JsonTypeOf", "enter")
    /\ DepthExceeded(Top.depth, opts)
    /\ IF IsPrimitive(Kind(Top.t))
       THEN Return(Result(StrV(PrimitiveName(Kind(Top.t))), NoError))
       ELSE Return(Result(Nil, ErrCircularRef))
    /\ UNCHANGED <<parked, structs, input, opts, visited>>

JsonTypeOfDepthExceeded ==
    /\ At("JsonTypeOf", "enter")
    /\ DepthExceeded(Top.depth, opts)
    /\ Return(Result(Nil, ErrCircularRef))
    /\ UNCHANGED <<parked, structs, input, opts, visited>>

\* One iteration of the loop of deref.
JsonTypeOfDerefUnsupported ==
    /\ At("JsonTypeOf", "enter")
    /\ ~DepthExceeded(Top.depth, opts)
    /\ Kind(Top.t) = "ptr"
    /\ Return(Result(Nil, ErrUnsupportedType))
    /\ UNCHANGED <<parked, structs, input, opts, visited>>

JsonTypeOfDeref ==
    /\ At("JsonTypeOf", "enter")
    /\ ~DepthExceeded(Top.depth, opts)
    /\ Kind(Top.t) = "ptr"
    /\ stack' = SetTop([Top EXCEPT !.t = derefStep(@)])
    /\ UNCHANGED <<parked, structs, input, opts, visited, ret, status>>

Dispatch ==
    /\ At("JsonTypeOf", "enter")
    /\ ~DepthExceeded(Top.depth, opts)
    /\ Kind(Top.t) # "ptr"

JsonTypeOfCircularAsObject ==
    /\ Dispatch
    /\ Kind(Top.t) = "struct"
    /\ Top.t \in visited
    /\ Return(Result(SchemaV(ObjectSchema(EmptyMap, <<>>, opts)), NoError))
    /\ UNCHANGED <<parked, structs, input, opts, visited>>

JsonTypeOfCircular ==
    /\ Dispatch
    /\ Kind(Top.t) = "struct"
    /\ Top.t \in visited
    /\ Return(Result(Nil, ErrCircularRef))
    /\ UNCHANGED <<parked, structs, input, opts, visited>>

JsonTypeOfPrimitive ==
    /\ Dispatch
    /\ IsPrimitive(Kind(Top.t))
    /\ Return(Result(StrV(PrimitiveName(Kind(Top.t))), NoError))
    /\ UNCHANGED <<parked, structs, input, opts, visited>>

JsonTypeOfUnsupportedAsString ==
    /\ Dispatch
    /\ ~IsPrimitive(Kind(Top.t))
    /\ ~IsSequence(Kind(Top.t))
    /\ Kind(Top.t) # "struct"
    /\ Return(Result(StrV("string"), NoError))
    /\ UNCHANGED <<parked, structs, input, opts, visited>>

JsonTypeOfUnsupported ==
    /\ Dispatch
    /\ ~IsPrimitive(Kind(Top.t))
    /\ ~IsSequence(Kind(Top.t))
    /\ Kind(Top.t) # "struct"
    /\ Return(Result(Nil, ErrUnsupportedType))
    /\ UNCHANGED <<parked, structs, input, opts, visited>>

JsonTypeOfArraySameDepth ==
    /\ Dispatch
    /\ IsSequence(Kind(Top.t))
    /\ Call([Top EXCEPT !.pc = "array"],
            Frame("parseArrayItemType", Top.t, Top.depth, visited))
    /\ UNCHANGED <<parked, structs, input, opts, visited, status>>

JsonTypeOfArray ==
    /\ Dispatch
    /\ IsSequence(Kind(Top.t))
    /\ Call([Top EXCEPT !.pc = "array"],
            Frame("parseArrayItemType", Top.t, Top.depth + 1, visited))
    /\ UNCHANGED <<parked, structs, input, opts, visited, status>>

JsonTypeOfArrayReturn ==
    /\ At("JsonTypeOf", "array")
    /\ ret.set
    /\ IF ret.err # NoError
       THEN Return(Result(Nil, ret.err))
       ELSE Return(Result(SchemaV(ArraySchema(ret.val)), NoError))
    /\ UNCHANGED <<parked, structs, input, opts, visited>>

JsonTypeOfStruct ==
    /\ Dispatch
    /\ Kind(Top.t) = "struct"
    /\ Top.t \notin visited
    /\ visited' = Mark(visited, Top.t)
    /\ Call([Top EXCEPT !.pc = "struct", !.marked = TRUE],
            Frame("structProperties", Top.t, Top.depth + 1, visited'))
    /\ UNCHANGED <<parked, structs, input, opts, status>>

JsonTypeOfStructReturn ==
    /\ At("JsonTypeOf", "struct")
    /\ ret.set
    /\ IF ret.err # NoError
       THEN Return(Result(Nil, ret.err))
       ELSE Return(Result(SchemaV(ObjectSchema(ret.props, ret.required, opts)), NoError))
    /\ visited' = Unmark(visited, Top.t)
    /\ UNCHANGED <<parked, structs, input, opts>>

----------------------------------------------------------------------------
(* parseArrayItemType: internal/converter.go *)

parseArrayItemTypeCall ==
    /\ At("parseArrayItemType", "enter")
    /\ Call([Top EXCEPT !.pc = "elem"],
            Frame("JsonTypeOf", Elem(Top.t), Top.depth, visited))
    /\ UNCHANGED <<parked, structs, input, opts, visited, status>>

parseArrayItemTypeReturn ==
    /\ At("parseArrayItemType", "elem")
    /\ ret.set
    /\ IF ret.err # NoError
       THEN Return(Result(Nil, ret.err))
       ELSE Return(Result(WrapItem(ret.val), NoError))
    /\ UNCHANGED <<parked, structs, input, opts, visited>>

----------------------------------------------------------------------------
(* structProperties: internal/converter.go *)

AtField ==
    /\ At("structProperties", "enter")
    /\ Kind(Top.t) = "struct"
    /\ Top.i <= NumField(Top.t)

NextField(f) == [f EXCEPT !.i = @ + 1, !.pc = "enter"]

IsSkipTagFirstSegment(jsonTag) == Head(Split(jsonTag)) = SkipTag

IsSkipTag(jsonTag) == jsonTag = SkipTag

\* t.NumField() panics for a type that is not a struct; the deferred deletes of
\* the open JsonTypeOf calls run while the panic unwinds the stack.
structPropertiesPanic ==
    /\ At("structProperties", "enter")
    /\ Kind(Top.t) # "struct"
    /\ status' = "panicked"
    /\ stack' = <<>>
    /\ ret' = NoRet
    /\ visited' = visited \ {stack[k].t : k \in {j \in 1..Len(stack) : stack[j].marked}}
    /\ UNCHANGED <<parked, structs, input, opts>>

structPropertiesUnexportedExamined ==
    /\ AtField
    /\ LET field == Field(Top.t, Top.i)
           tag == parseJSONTag(field.Name, field.Tag)
       IN /\ field.PkgPath # ""
          /\ Call([Top EXCEPT !.pc = "field", !.fieldName = tag.name,
                              !.isOptional = tag.optional],
                  Frame("JsonTypeOf", field.Type, Top.depth, visited))
    /\ UNCHANGED <<parked, structs, input, opts, visited, status>>

structPropertiesUnexported ==
    /\ AtField
    /\ Field(Top.t, Top.i).PkgPath # ""
    /\ stack' = SetTop(NextField(Top))
    /\ UNCHANGED <<parked, structs, input, opts, visited, ret, status>>

structPropertiesEmbeddedTagFirst ==
    /\ AtField
    /\ LET field == Field(Top.t, Top.i) IN
         /\ field.PkgPath = ""
         /\ field.Anonymous
         /\ IF IsSkipTag(field.Tag)
            THEN /\ stack' = SetTop(NextField(Top))
                 /\ UNCHANGED ret
            ELSE Call([Top EXCEPT !.pc = "embedded"],
                      Frame("structProperties", field.Type, Top.depth, visited))
    /\ UNCHANGED <<parked, structs, input, opts, visited, status>>

structPropertiesEmbeddedGuarded ==
    /\ AtField
    /\ LET field == Field(Top.t, Top.i) IN
         /\ field.PkgPath = ""
         /\ field.Anonymous
         /\ IF field.Type \in visited
            THEN /\ Return(PropsResult(EmptyMap, <<>>, ErrCircularRef))
                 /\ UNCHANGED visited
            ELSE /\ visited' = Mark(visited, field.Type)
                 /\ Call([Top EXCEPT !.pc = "embedded"],
                         Frame("structProperties", field.Type, Top.depth, visited'))
                 /\ UNCHANGED status
    /\ UNCHANGED <<parked, structs, input, opts>>

structPropertiesEmbedded ==
    /\ AtField
    /\ LET field == Field(Top.t, Top.i) IN
         /\ field.PkgPath = ""
         /\ field.Anonymous
         /\ Call([Top EXCEPT !.pc = "embedded"],
                 Frame("structProperties", field.Type, Top.depth, visited))
    /\ UNCHANGED <<parked, structs, input, opts, visited, status>>

structPropertiesEmbeddedReturn ==
    /\ At("structProperties", "embedded")
    /\ ret.set
    /\ IF ret.err # NoError
       THEN Return(PropsResult(EmptyMap, <<>>, ret.err))
       ELSE /\ stack' = SetTop(NextField([Top EXCEPT
                            !.props = MergeProps(@, ret.props),
                            !.required = @ \o ret.required]))
            /\ ret' = NoRet
            /\ UNCHANGED status
    /\ UNCHANGED <<parked, structs, input, opts, visited>>

structPropertiesSkip ==
    /\ AtField
    /\ LET field == Field(Top.t, Top.i) IN
         /\ field.PkgPath = ""
         /\ ~field.Anonymous
         /\ IsSkipTag(field.Tag)
    /\ stack' = SetTop(NextField(Top))
    /\ UNCHANGED <<parked, structs, input, opts, visited, ret, status>>

structPropertiesField ==
    /\ AtField
    /\ LET field == Field(Top.t, Top.i)
           tag == parseJSONTag(field.Name, field.Tag)
       IN /\ field.PkgPath = ""
          /\ ~field.Anonymous
          /\ ~IsSkipTag(field.Tag)
          /\ Call([Top EXCEPT !.pc = "field", !.fieldName = tag.name,
                              !.isOptional = tag.optional],
                  Frame("JsonTypeOf", field.Type, Top.depth, visited))
    /\ UNCHANGED <<parked, structs, input, opts, visited, status>>

structPropertiesFieldReturnSkippingFailure ==
    /\ At("structProperties", "field")
    /\ ret.set
    /\ IF ret.err # NoError
       THEN stack' = SetTop(NextField(Top))
       ELSE stack' = SetTop(NextField([Top EXCEPT
                            !.props = SetProp(@, Top.fieldName,
                                              ShapeField(ret.val, Top.isOptional)),
                            !.required = AppendRequired(@, Top.fieldName,
                                                        Top.isOptional)]))
    /\ ret' = NoRet
    /\ UNCHANGED <<parked, structs, input, opts, visited, status>>

structPropertiesFieldReturn ==
    /\ At("structProperties", "field")
    /\ ret.set
    /\ IF ret.err # NoError
       THEN Return(PropsResult(EmptyMap, <<>>, ret.err))
       ELSE /\ stack' = SetTop(NextField([Top EXCEPT
                            !.props = SetProp(@, Top.fieldName,
                                              ShapeField(ret.val, Top.isOptional)),
                            !.required = AppendRequired(@, Top.fieldName,
                                                        Top.isOptional)]))
            /\ ret' = NoRet
            /\ UNCHANGED status
    /\ UNCHANGED <<parked, structs, input, opts, visited>>

structPropertiesReturn ==
    /\ At("structProperties", "enter")
    /\ Kind(Top.t) = "struct"
    /\ Top.i > NumField(Top.t)
    /\ Return(PropsResult(Top.props, Top.required, NoError))
    /\ UNCHANGED <<parked, structs, input, opts, visited>>

----------------------------------------------------------------------------
(* parseJSONTag called on its own, as TestParseJSONTag does *)

parseJSONTagCall ==
    /\ At("parseJSONTag", "enter")
    /\ LET tag == parseJSONTag(input.fieldName, input.tag) IN
         Return(TagResult(tag.name, tag.optional))
    /\ UNCHANGED <<parked, structs, input, opts, visited>>

----------------------------------------------------------------------------
(* GenerateSchema of package gptschema *)

NilType == <<>>

ErrNilValue == "cannot generate schema for nil value"

ErrNotStruct == "the schema is expected to be a Go struct"

ErrUnexpectedSchema == "unexpected schema type"

WithMaxDepth(o, depth) == [o EXCEPT !.MaxDepth = depth]

RECURSIVE ApplyOptions(_, _)
ApplyOptions(o, options) ==
    IF options = <<>> THEN o
    ELSE ApplyOptions(WithMaxDepth(o, Head(options)), Tail(options))

GenerateSchemaNil ==
    /\ At("GenerateSchema", "enter")
    /\ Top.t = NilType
    /\ Return(Result(Nil, ErrNilValue))
    /\ UNCHANGED <<parked, structs, input, opts, visited>>

\* One iteration of the loop that dereferences the value's type.
GenerateSchemaDeref ==
    /\ At("GenerateSchema", "enter")
    /\ Top.t # NilType
    /\ Kind(Top.t) = "ptr"
    /\ stack' = SetTop([Top EXCEPT !.t = Elem(@)])
    /\ UNCHANGED <<parked, structs, input, opts, visited, ret, status>>

GenerateSchemaNotStructDispatches ==
    /\ At("GenerateSchema", "enter")
    /\ Top.t # NilType
    /\ Kind(Top.t) \notin {"ptr", "struct"}
    /\ opts' = ApplyOptions(DefaultOptions, input.options)
    /\ visited' = {}
    /\ Call([Top EXCEPT !.pc = "call"], Frame("JsonTypeOf", Top.t, 0, {}))
    /\ UNCHANGED <<parked, structs, input, status>>

GenerateSchemaNotStruct ==
    /\ At("GenerateSchema", "enter")
    /\ Top.t # NilType
    /\ Kind(Top.t) \notin {"ptr", "struct"}
    /\ Return(Result(Nil, ErrNotStruct))
    /\ UNCHANGED <<parked, structs, input, opts, visited>>

GenerateSchemaCall ==
    /\ At("GenerateSchema", "enter")
    /\ Top.t # NilType
    /\ Kind(Top.t) = "struct"
    /\ opts' = ApplyOptions(DefaultOptions, input.options)
    /\ visited' = {}
    /\ Call([Top EXCEPT !.pc = "call"], Frame("JsonTypeOf", Top.t, 0, {}))
    /\ UNCHANGED <<parked, structs, input, status>>

GenerateSchemaReturn ==
    /\ At("GenerateSchema", "call")
    /\ ret.set
    /\ IF ret.err # NoError THEN Return(Result(Nil, ret.err))
       ELSE IF ret.val.dyn = "Schema" THEN Return(Result(ret.val, NoError))
       ELSE Return(Result(Nil, ErrUnexpectedSchema))
    /\ UNCHANGED <<parked, structs, input, opts, visited>>

----------------------------------------------------------------------------
(* Type declarations: the fixtures of the repository's tests *)

Named(name, type, tag) ==
    [Name |-> <<name>>, PkgPath |-> "", Anonymous |-> FALSE, Tag |-> tag, Type |-> type]

Embedded(name, type, tag) ==
    [Name |-> <<name>>, PkgPath |-> "", Anonymous |-> TRUE, Tag |-> tag, Type |-> type]

Unexported(name, type, tag) ==
    [Name |-> <<name>>, PkgPath |-> "internal", Anonymous |-> FALSE, Tag |-> tag,
     Type |-> type]

NoTag == <<>>

Json(name) == <<name>>

JsonOmitempty(name) == <<name, Comma, "omitempty">>

Fixtures ==
    [SimpleStruct |-> <<Named("Name", <<"string">>, NoTag),
                        Named("Age", <<"int">>, NoTag),
                        Named("Email", <<"string">>, NoTag)>>,
     StructWithTags |-> <<Named("Name", <<"string">>, Json("name")),
                          Named("Age", <<"int">>, Json("age")),
                          Named("Email", <<"string">>, JsonOmitempty("email"))>>,
     StructWithEmptyTag |-> <<Named("Name", <<"string">>, NoTag),
                              Named("Email", <<"string">>, Json("email"))>>,
     NestedStruct |-> <<Named("User", <<"StructWithTags">>, Json("user")),
                        Named("Active", <<"bool">>, Json("active")),
                        Named("Count", <<"int">>, JsonOmitempty("count"))>>,
     BaseInfo |-> <<Named("ID", <<"int">>, Json("id")),
                    Named("CreatedAt", <<"string">>, Json("created_at"))>>,
     ExtendedInfo |-> <<Embedded("BaseInfo", <<"BaseInfo">>, NoTag),
                        Named("Title", <<"string">>, Json("title")),
                        Named("Content", <<"string">>, JsonOmitempty("content"))>>,
     Address |-> <<Named("Street", <<"string">>, Json("street")),
                   Named("City", <<"string">>, Json("city")),
                   Named("ZipCode", <<"string">>, JsonOmitempty("zip_code"))>>,
     Company |-> <<Named("Name", <<"string">>, Json("name")),
                   Named("Address", <<"Address">>, Json("address"))>>,
     Employee |-> <<Named("Name", <<"string">>, Json("name")),
                    Named("Companies", <<"slice", "Company">>, Json("companies")),
                    Named("Tags", <<"slice", "string">>, JsonOmitempty("tags"))>>,
     ItemWithPointer |-> <<Named("ID", <<"int">>, Json("id")),
                           Named("Name", <<"ptr", "string">>, JsonOmitempty("name"))>>,
     CollectionWithPointers |->
         <<Named("Items", <<"slice", "ptr", "ItemWithPointer">>, Json("items"))>>,
     Node |-> <<Named("Value", <<"string">>, Json("value")),
                Named("Next", <<"ptr", "Node">>, JsonOmitempty("next"))>>,
     Query |-> <<>>,
     DeepStruct |-> <<Named("Level1", <<"Level1">>, Json("level1"))>>,
     Level1 |-> <<Named("Level2", <<"Level2">>, Json("level2"))>>,
     Level2 |-> <<Named("Level3", <<"Level3">>, Json("level3"))>>,
     Level3 |-> <<Named("Level4", <<"Level4">>, Json("level4"))>>,
     Level4 |-> <<Named("Value", <<"string">>, Json("value"))>>]

----------------------------------------------------------------------------
(* Inputs: a struct G declared with up to MaxFields fields drawn from       *)
(* GenFields, and a struct H that points back to G.                         *)

MaxFields == 2

MaxDepthBound == 2

InsufficientDepth == 3

SufficientDepth == 10

GenFields ==
    {Named("F", <<"string">>, tag) :
        tag \in {NoTag, Json("x"), JsonOmitempty("x"), <<Comma, "omitempty">>,
                 SkipTag, <<"-", Comma, "omitempty">>}}
    \cup {Named("F", <<"string">>, Json("id")),
          Named("F", <<"Address">>, NoTag),
          Named("F", <<"Address">>, JsonOmitempty("x")),
          Named("F", <<"slice", "Address">>, NoTag),
          Named("F", <<"map">>, NoTag),
          Named("F", <<"map">>, SkipTag),
          Named("F", <<"slice", "map">>, NoTag),
          Named("F", <<"ptr", "G">>, NoTag),
          Named("F", <<"slice", "G">>, JsonOmitempty("x")),
          Named("F", <<"ptr", "H">>, NoTag),
          Named("F", <<"S">>, NoTag),
          Unexported("f", <<"ptr", "G">>, NoTag),
          Embedded("BaseInfo", <<"BaseInfo">>, NoTag),
          Embedded("BaseInfo", <<"BaseInfo">>, SkipTag),
          Embedded("BaseInfo", <<"BaseInfo">>, JsonOmitempty("x")),
          Embedded("BaseInfo", <<"ptr", "BaseInfo">>, NoTag),
          Embedded("MyInt", <<"MyInt">>, NoTag),
          Embedded("H", <<"H">>, NoTag)}

FieldNames == <<"F1", "F2", "F3", "F4", "F5">>

\* Declared names are distinct within a struct: the k-th declared field is Fk.
Declare(fields) ==
    [k \in 1..Len(fields) |->
        IF fields[k].Anonymous THEN fields[k]
        ELSE [fields[k] EXCEPT !.Name = <<FieldNames[k]>>]]

GenStructs == UNION {[1..n -> GenFields] : n \in 0..MaxFields}

HFields == <<Named("Back", <<"ptr", "G">>, Json("back"))>>

ItemFields == <<Named("ID", <<"int">>, Json("id"))>>

\* A struct that points to a struct in which it is embedded by value:
\* type Outer struct { Inner *Inner }; type Inner struct { Outer; Note string }.
OuterFields == <<Named("Inner", <<"ptr", "Inner">>, Json("inner"))>>

InnerFields ==
    <<Embedded("Outer", <<"Outer">>, NoTag),
      Named("Note", <<"string">>, Json("note"))>>

\* A struct from which no name is collected: an unexported map, a skipped
\* pointer to the struct itself, and an embedded struct without fields.
BlankFields ==
    <<Unexported("hidden", <<"map">>, Json("hidden")),
      Named("Self", <<"ptr", "Blank">>, SkipTag),
      Embedded("Query", <<"Query">>, NoTag)>>

StructsWith(g) ==
    [id \in DOMAIN Fixtures \cup {"G", "H", "Item", "Blank", "Outer", "Inner"} |->
        IF id = "G" THEN Declare(g)
        ELSE IF id = "H" THEN HFields
        ELSE IF id = "Item" THEN ItemFields
        ELSE IF id = "Blank" THEN BlankFields
        ELSE IF id = "Outer" THEN OuterFields
        ELSE IF id = "Inner" THEN InnerFields
        ELSE Fixtures[id]]

MaxDepths == (0..MaxDepthBound) \cup {InsufficientDepth, SufficientDepth, DefaultMaxDepth}

FixtureTypes ==
    {<<id>> : id \in DOMAIN Fixtures}
    \cup {<<"ptr", "CollectionWithPointers">>, <<"ptr", "ptr", "Node">>, <<"Blank">>,
           <<"Outer">>}

OtherTypes ==
    {<<"int">>, <<"ptr", "float64">>, <<"map">>, <<"slice", "chan">>,
     <<"slice", "slice", "string">>, <<"array", "Address">>, <<"slice", "ptr", "Node">>,
     <<"S">>, <<"Q1">>,
     <<"slice", "Item">>, <<"array", "int">>, <<"slice", "ptr", "string">>,
     <<"slice", "slice", "slice", "ptr", "int">>}
    \cup {<<kind>> : kind \in BaseKinds}

Input(api, t, options, v, d) ==
    [api |-> api, t |-> t, options |-> options, visited |-> v, depth |-> d,
     fieldName |-> <<>>, tag |-> <<>>]

TagInput(fieldName, tag) ==
    [Input("parseJSONTag", NilType, <<>>, {}, 0) EXCEPT
        !.fieldName = fieldName, !.tag = tag]

MaxTagLen == 5

TagTexts == {"omitempty", "my_field", "string", "-", " omitempty"}

\* The tags of at most MaxTagLen chunks: no two pieces of text are adjacent.
Tags ==
    UNION {{tag \in [1..n -> TagTexts \cup {Comma}] :
                \A k \in 1..(n - 1) : tag[k] = Comma \/ tag[k + 1] = Comma} :
           n \in 0..MaxTagLen}

InitParseJSONTag ==
    /\ structs = StructsWith(<<>>)
    /\ \E fieldName \in {<<"MyField">>, <<"F1">>}, tag \in Tags :
         input = TagInput(fieldName, tag)
    /\ opts = DefaultOptions
    /\ visited = {}

InitGenerateSchema ==
    /\ structs = StructsWith(<<>>)
    /\ \E t \in FixtureTypes \cup {NilType, <<"int">>, <<"slice", "Address">>, <<"Q1">>,
                                   <<"ptr", "int">>, <<"ptr", "ptr", "map">>},
          options \in {<<>>} \cup {<<d>> : d \in MaxDepths} :
         input = Input("GenerateSchema", t, options, {}, 0)
    /\ opts = DefaultOptions
    /\ visited = {}

InitJsonTypeOf ==
    /\ structs = StructsWith(<<>>)
    /\ \E t \in FixtureTypes \cup OtherTypes,
          v \in {{}, {<<"Node">>, <<"Address">>}},
          d \in 0..1 :
         /\ input = Input("JsonTypeOf", t, <<>>, v, d)
         /\ visited = v
    /\ opts \in [AllowAdditionalProperty : BOOLEAN, MaxDepth : MaxDepths]

InitGenerated ==
    /\ structs \in {StructsWith(g) : g \in GenStructs}
    /\ \E options \in {<<>>} \cup {<<d>> : d \in 0..MaxDepthBound} :
         input = Input("GenerateSchema", <<"G">>, options, {}, 0)
    /\ opts = DefaultOptions
    /\ visited = {}

Init ==
    /\ \/ InitGenerateSchema
       \/ InitJsonTypeOf
       \/ InitGenerated
       \/ InitParseJSONTag
    /\ stack = <<Frame(input.api, input.t, input.depth, visited)>>
    /\ ret = NoRet
    /\ status = "running"
    /\ parked = <<>>

Next ==
    \/ GenerateSchemaNil
    \/ GenerateSchemaDeref
    \/ GenerateSchemaNotStruct
    \/ GenerateSchemaCall
    \/ GenerateSchemaReturn
    \/ JsonTypeOfDepthExceeded
    \/ JsonTypeOfDeref
    \/ JsonTypeOfCircular
    \/ JsonTypeOfPrimitive
    \/ JsonTypeOfUnsupported
    \/ JsonTypeOfArray
    \/ JsonTypeOfArrayReturn
    \/ JsonTypeOfStruct
    \/ JsonTypeOfStructReturn
    \/ parseArrayItemTypeCall
    \/ parseArrayItemTypeReturn
    \/ structPropertiesPanic
    \/ structPropertiesUnexported
    \/ structPropertiesEmbedded
    \/ structPropertiesEmbeddedReturn
    \/ structPropertiesSkip
    \/ structPropertiesField
    \/ structPropertiesFieldReturn
    \/ structPropertiesReturn
    \/ parseJSONTagCall

Spec == Init /\ [][Next]_vars

\* The conversion is one sequential call: a step that can be taken is taken.
FairSpec == Spec /\ WF_vars(Next)

Done == status \in {"returned", "panicked"}

----------------------------------------------------------------------------
(* The type graph of the input, read off the declarations                   *)

\* t with at most n pointer layers removed.
RECURSIVE StripPointers(_, _)
StripPointers(t, n) ==
    IF n = 0 \/ Kind(t) # "ptr" THEN t ELSE StripPointers(Elem(t), n - 1)

Resolved(t) == StripPointers(t, Len(t) + Cardinality(DOMAIN NamedTypes))

FinitePointerChain(t) == Kind(Resolved(t)) # "ptr"

IsExamined(field) ==
    /\ field.PkgPath = ""
    /\ field.Anonymous \/ field.Tag # SkipTag

\* The types the traversal may go to from a resolved type t: the element type
\* of a sequence, the declared types of the examined fields of a struct.
Children(t) ==
    IF IsSequence(Kind(t)) THEN {Resolved(Elem(t))}
    ELSE IF Kind(t) = "struct"
    THEN LET examined == {j \in 1..NumField(t) : IsExamined(Field(t, j))} IN
         {Field(t, k).Type :
            k \in {j \in examined : Field(t, j).Anonymous
                                    /\ Kind(Field(t, j).Type) = "struct"}}
         \cup {Resolved(Field(t, k).Type) :
                 k \in {j \in examined : ~Field(t, j).Anonymous}}
    ELSE {}

RECURSIVE Closure(_, _)
Closure(frontier, seen) ==
    IF frontier \subseteq seen THEN seen
    ELSE Closure(UNION {Children(t) : t \in frontier \ seen}, seen \cup frontier)

\* The types reachable from t in one or more steps, and in zero or more steps.
ReachablePlus(t) == Closure(Children(t), {})

Reachable(t) == {t} \cup ReachablePlus(t)

SelfReferential(t) == t \in ReachablePlus(t)

Acyclic(t) == \A u \in Reachable(t) : ~SelfReferential(u)

OnlySupportedKinds(t) ==
    \A u \in Reachable(t) :
        \/ IsPrimitive(Kind(u))
        \/ IsSequence(Kind(u))
        \/ Kind(u) = "struct"
        \/ Kind(u) = "ptr"

EmbeddedAreStructs(t) ==
    \A u \in Reachable(t) :
        Kind(u) = "struct" =>
            \A k \in 1..NumField(u) :
                IsExamined(Field(u, k)) /\ Field(u, k).Anonymous
                    => Kind(Field(u, k).Type) = "struct"

\* A type whose pointer chain never ends (type Q1 *Q2, type Q2 *Q1) stays a pointer type.
FinitePointerChains(t) == \A u \in Reachable(t) : Kind(u) # "ptr"

Max(S) == CHOOSE x \in S : \A y \in S : y <= x

\* The deepest level at which JsonTypeOf is entered below an acyclic type t that
\* is itself dispatched at level d; FieldsLevel is the same for the fields of a
\* struct whose fields are dispatched at level d.
RECURSIVE Level(_, _), FieldsLevel(_, _)
Level(t, d) ==
    IF IsSequence(Kind(t)) THEN Level(Resolved(Elem(t)), d + 1)
    ELSE IF Kind(t) = "struct" THEN Max({d, FieldsLevel(t, d + 1)})
    ELSE d

FieldsLevel(t, d) ==
    Max({0} \cup
        {IF Field(t, k).Anonymous THEN FieldsLevel(Field(t, k).Type, d)
         ELSE Level(Resolved(Field(t, k).Type), d) :
            k \in {j \in 1..NumField(t) : IsExamined(Field(t, j))}})

----------------------------------------------------------------------------
(* What a finished call returned *)

Returned == status = "returned"

Panicked == status = "panicked"

ReturnedSchema == Returned /\ ret.err = NoError /\ ret.val.dyn = "Schema"

ReturnedError(e) == Returned /\ ret.err = e /\ ret.val = Nil

\* The call is a conversion of a struct type from level 0 with no type marked.
RootType == Resolved(input.t)

StructConversion ==
    /\ input.t # NilType
    /\ FinitePointerChain(input.t)
    /\ Kind(RootType) = "struct"
    /\ input.depth = 0
    /\ input.visited = {}

----------------------------------------------------------------------------
(* Claims *)

Range(q) == {q[k] : k \in 1..Len(q)}

\* Some segment after the first one is the marker omitempty.
MarkedOptional(tag) ==
    \E k \in 2..Len(tag) :
        /\ tag[k - 1] = Comma
        /\ tag[k] = "omitempty"
        /\ k = Len(tag) \/ tag[k + 1] = Comma

NullUnionOf(v) ==
    IF v.dyn = "string"
    THEN SchemaV("type" :> StrsV(<<v.val, "null">>))
    ELSE SchemaV("anyOf" :> SchemasV(<<v.val, "type" :> StrV("null")>>))

Plain(v) == IF v.dyn = "string" THEN SchemaV("type" :> StrV(v.val)) ELSE v

C1_FieldStep ==
    (At("structProperties", "field") /\ ret.set /\ ret.err = NoError) =>
        LET field == Field(Top.t, Top.i)
            after == stack'[Len(stack)]
        IN /\ after.props[Top.fieldName] =
                  IF MarkedOptional(field.Tag) THEN NullUnionOf(ret.val) ELSE Plain(ret.val)
           /\ after.required = Append(Top.required, Top.fieldName)

\* C1: when the schema of a named, non-skipped field comes back, the property
\* stored under the field's name is {"type": [T, "null"]} (T a primitive name) or
\* {"anyOf": [S, {"type": "null"}]} (S a schema) if the field's tag marks it
\* optional, and {"type": T} or S unchanged if not; in both cases the name is
\* appended to required.
C1_OptionalFieldsAreNullUnions == [][C1_FieldStep]_vars

C1_Witness ==
    /\ ReturnedSchema
    /\ "properties" \in DOMAIN ret.val.val
    /\ "required" \in DOMAIN ret.val.val
    /\ LET props == ret.val.val["properties"].val IN
         /\ \E k \in DOMAIN props : "anyOf" \in DOMAIN props[k].val
         /\ \E k \in DOMAIN props :
              /\ "type" \in DOMAIN props[k].val
              /\ props[k].val["type"].dyn = "[]string"
         /\ DOMAIN props = Range(ret.val.val["required"].val)

RECURSIVE RequiredIsProperties(_)
RequiredIsProperties(m) ==
    IF "properties" \in DOMAIN m
    THEN LET props == m["properties"].val IN
         /\ IF DOMAIN props = {}
            THEN "required" \notin DOMAIN m
            ELSE /\ "required" \in DOMAIN m
                 /\ Range(m["required"].val) = DOMAIN props
         /\ \A k \in DOMAIN props : RequiredIsProperties(props[k].val)
    ELSE IF "items" \in DOMAIN m THEN RequiredIsProperties(m["items"].val)
    ELSE IF "anyOf" \in DOMAIN m
    THEN \A k \in 1..Len(m["anyOf"].val) : RequiredIsProperties(m["anyOf"].val[k])
    ELSE TRUE

\* C2: in every schema a call returns, the names in required of every object
\* node (root, property, array item, anyOf member) are exactly the keys of its
\* properties, and an object with no property has no required key.
C2_RequiredIsProperties == ReturnedSchema => RequiredIsProperties(ret.val.val)

C2_Witness ==
    /\ ReturnedSchema
    /\ "properties" \in DOMAIN ret.val.val
    /\ LET props == ret.val.val["properties"].val IN
         /\ \E k \in DOMAIN props :
              /\ "anyOf" \in DOMAIN props[k].val
              /\ "properties" \in DOMAIN props[k].val["anyOf"].val[1]
         /\ Cardinality(DOMAIN props) = 2

\* The types the conversion of RootType goes through can each be converted on
\* their own: no unsupported kind, anonymous fields are structs, pointer chains end.
Convertible(t) ==
    /\ OnlySupportedKinds(t)
    /\ EmbeddedAreStructs(t)
    /\ FinitePointerChains(t)

\* C3: the conversion of a struct type that refers to itself through examined
\* fields (a pointer field, a sequence element, another struct that points
\* back) never returns a schema, whatever MaxDepth is; when every type on the
\* way is otherwise convertible it returns ErrCircularRef and no value.
C3_SelfReferenceIsCircularRef ==
    (Done /\ StructConversion /\ SelfReferential(RootType)) =>
        /\ ~ReturnedSchema
        /\ Convertible(RootType) => ReturnedError(ErrCircularRef)

C3_Witness ==
    /\ ReturnedError(ErrCircularRef)
    /\ StructConversion
    /\ opts.MaxDepth = DefaultMaxDepth
    /\ RootType = <<"G">>
    /\ <<"H">> \in ReachablePlus(RootType)
    /\ Convertible(RootType)

\* Some examined named field of t is a struct.
HasNestedRecordField(t) ==
    \E k \in 1..NumField(t) :
        /\ IsExamined(Field(t, k))
        /\ ~Field(t, k).Anonymous
        /\ Kind(Resolved(Field(t, k).Type)) = "struct"

\* C4: for a struct type without cycles, converted from level 0 with no type
\* marked: with MaxDepth 0 and a nested struct field the result is
\* ErrCircularRef; with MaxDepth at least the deepest level the traversal enters
\* the result is a schema, and below that level it is ErrCircularRef. DeepStruct
\* (a string below Level1..Level4) fails with MaxDepth 3 and converts with 10.
C4_DepthLimit ==
    (Done /\ StructConversion /\ Acyclic(RootType) /\ Convertible(RootType)) =>
        /\ (opts.MaxDepth = 0 /\ HasNestedRecordField(RootType))
              => ReturnedError(ErrCircularRef)
        /\ IF opts.MaxDepth >= Level(RootType, 0)
           THEN ReturnedSchema
           ELSE ReturnedError(ErrCircularRef)
        /\ RootType = <<"DeepStruct">> =>
              /\ opts.MaxDepth = InsufficientDepth => ReturnedError(ErrCircularRef)
              /\ opts.MaxDepth = SufficientDepth => ReturnedSchema

C4_Witness ==
    /\ ReturnedError(ErrCircularRef)
    /\ StructConversion
    /\ RootType = <<"DeepStruct">>
    /\ opts.MaxDepth = InsufficientDepth

\* Some type the traversal goes to from t is of a kind JsonTypeOf has no case for.
HasUnsupportedKind(t) ==
    \E u \in ReachablePlus(t) : Kind(u) \in OtherKinds

\* C5: the conversion of a struct with an examined field of an unsupported kind
\* (map, chan, func, interface, complex), as the field's type or as the element
\* type of a sequence field, returns ErrUnsupportedType and no value, provided
\* nothing else on the way fails (no cycle, MaxDepth not reached).
C5_UnsupportedKind ==
    (Done /\ StructConversion /\ HasUnsupportedKind(RootType)
          /\ Acyclic(RootType) /\ EmbeddedAreStructs(RootType)
          /\ FinitePointerChains(RootType)
          /\ opts.MaxDepth >= Level(RootType, 0))
        => ReturnedError(ErrUnsupportedType)

C5_Witness ==
    /\ ReturnedError(ErrUnsupportedType)
    /\ StructConversion
    /\ RootType = <<"G">>
    /\ \E k \in 1..NumField(RootType) : Field(RootType, k).Type = <<"slice", "map">>
    /\ \E k \in 1..NumField(RootType) : Field(RootType, k).Type = <<"Address">>

\* The running structProperties call finishes the field at its index i and
\* goes on to the next one.
FieldDone ==
    /\ status = "running"
    /\ stack # <<>>
    /\ Top.fn = "structProperties"
    /\ Len(stack') = Len(stack)
    /\ stack'[Len(stack)].i = Top.i + 1

TaggedField(field) == field.PkgPath = "" /\ ~field.Anonymous

FirstSegment(tag) == Split(tag)[1]

C6_FirstSegmentStep ==
    LET field == Field(Top.t, Top.i)
        after == stack'[Len(stack)]
    IN (FieldDone /\ TaggedField(field) /\ FirstSegment(field.Tag) = SkipTag) =>
           /\ after.props = Top.props
           /\ after.required = Top.required

\* C6 as stated: a named field whose tag has "-" as its first comma-separated
\* segment adds nothing to properties and nothing to required.
C6_FirstSegmentSkips == [][C6_FirstSegmentStep]_vars

C6_WholeTagStep ==
    LET field == Field(Top.t, Top.i)
        after == stack'[Len(stack)]
    IN (FieldDone /\ TaggedField(field)) =>
           /\ field.Tag = SkipTag =>
                 /\ after.props = Top.props
                 /\ after.required = Top.required
           /\ (FirstSegment(field.Tag) = SkipTag /\ field.Tag # SkipTag) =>
                 /\ DOMAIN after.props = DOMAIN Top.props \cup {SkipTag}
                 /\ after.required = Append(Top.required, SkipTag)

\* C6: a named field whose whole tag is "-" adds nothing to properties and
\* nothing to required; a tag with further segments after "-" does not skip
\* the field: it is emitted under the name "-" and appended to required.
C6_WholeTagSkips == [][C6_WholeTagStep]_vars

C6_Witness ==
    /\ ReturnedSchema
    /\ StructConversion
    /\ RootType = <<"G">>
    /\ \E k \in 1..NumField(RootType) :
          TaggedField(Field(RootType, k)) /\ Field(RootType, k).Tag = SkipTag
    /\ \E k \in 1..NumField(RootType) :
          /\ TaggedField(Field(RootType, k))
          /\ Field(RootType, k).Tag = <<"-", Comma, "omitempty">>
    /\ DOMAIN ret.val.val["properties"].val = {SkipTag}
    /\ ret.val.val["required"].val = <<SkipTag>>

\* The properties of contributors in declaration order: a later one replaces
\* what an earlier one stored under the same name.
LastWins(earlier, later) ==
    [k \in DOMAIN earlier \cup DOMAIN later |->
        IF k \in DOMAIN later THEN later[k] ELSE earlier[k]]

C7_Step ==
    /\ \A k \in 2..Len(stack) :
          /\ stack[k - 1].fn = "structProperties" => stack[k].depth = stack[k - 1].depth
          /\ stack[k - 1].pc = "embedded" => stack[k].fn = "structProperties"
    /\ (At("structProperties", "embedded") /\ ret.set /\ ret.err = NoError) =>
          LET after == stack'[Len(stack)] IN
          /\ after.props = LastWins(Top.props, ret.props)
          /\ after.required = Top.required \o ret.required
    /\ (At("structProperties", "field") /\ ret.set /\ ret.err = NoError) =>
          LET after == stack'[Len(stack)]
              schema == IF Top.isOptional THEN NullUnionOf(ret.val) ELSE Plain(ret.val)
          IN after.props = LastWins(Top.props, Top.fieldName :> schema)

\* C7: an anonymous struct field is converted by structProperties itself, at
\* the depth of the struct that embeds it, and the fields of both are
\* dispatched at that depth; its properties and required names go into those
\* of the embedding struct, and under one name the property kept is the one of
\* the contributor declared last.
C7_EmbeddedMergedFlat == [][C7_Step]_vars

C7_Witness ==
    /\ ReturnedSchema
    /\ StructConversion
    /\ RootType = <<"G">>
    /\ opts.MaxDepth = 1
    /\ NumField(RootType) = 2
    /\ Field(RootType, 1).Anonymous
    /\ LET props == ret.val.val["properties"].val IN
         /\ DOMAIN props = {<<"id">>, <<"created_at">>}
         /\ props[<<"id">>] = SchemaV(TypeSchema("string"))

C8_Step ==
    /\ (status = "running" /\ stack # <<>> /\ Top.fn = "JsonTypeOf"
           /\ Len(stack') = Len(stack) - 1)
          => visited' = Top.entered
    /\ (status = "running" /\ status' = "returned") => visited' = input.visited

\* C8: when a call of JsonTypeOf returns (a value, ErrUnsupportedType or
\* ErrCircularRef), visited is what it was when the call was entered; when the
\* top-level call returns it is what the caller passed, empty if it was empty.
C8_VisitedRestored == [][C8_Step]_vars

C8_Witness ==
    /\ ReturnedError(ErrCircularRef)
    /\ StructConversion
    /\ RootType = <<"G">>
    /\ opts.MaxDepth = DefaultMaxDepth
    /\ \E k \in 1..NumField(RootType) :
          Field(RootType, k).Anonymous /\ Field(RootType, k).Type = <<"H">>
    /\ visited = {}

\* C9 as stated: the conversion of a struct type ends with a value and no
\* error, with ErrUnsupportedType and no value, or with ErrCircularRef and no
\* value, and in no other way.
C9_ThreeOutcomes ==
    (Done /\ StructConversion) =>
        \/ Returned /\ ret.err = NoError /\ ret.val # Nil
        \/ ReturnedError(ErrUnsupportedType)
        \/ ReturnedError(ErrCircularRef)

\* C10 as stated: every conversion eventually ends.
C10_Terminates == <>Done

\* The JSON type names of the primitive kinds, kind by kind.
JsonNameOfKind ==
    [string |-> "string", bool |-> "boolean",
     int |-> "integer", int8 |-> "integer", int16 |-> "integer",
     int32 |-> "integer", int64 |-> "integer",
     uint |-> "integer", uint8 |-> "integer", uint16 |-> "integer",
     uint32 |-> "integer", uint64 |-> "integer",
     float32 |-> "number", float64 |-> "number"]

\* C11: JsonTypeOf of a string, bool, integer or float kind, entered at a depth
\* that does not exceed MaxDepth, returns "string", "boolean", "integer" or
\* "number" and no error, whatever depth, visited and AllowAdditionalProperty
\* are, and leaves visited as it was.
C11_PrimitiveClassification ==
    (Returned /\ input.api = "JsonTypeOf" /\ Len(input.t) = 1
        /\ input.t[1] \in DOMAIN JsonNameOfKind
        /\ input.depth <= opts.MaxDepth)
      => /\ ret.val = StrV(JsonNameOfKind[input.t[1]])
         /\ ret.err = NoError
         /\ visited = input.visited

C11_Witness ==
    /\ Returned
    /\ input.api = "JsonTypeOf"
    /\ input.t = <<"uint16">>
    /\ input.depth = 1
    /\ opts.MaxDepth = 1
    /\ input.visited # {}
    /\ opts.AllowAdditionalProperty
    /\ ret.val = StrV("integer")

ArrayOf(items) ==
    SchemaV([k \in {"type", "items"} |-> IF k = "type" THEN StrV("array") ELSE items])

TypeOnly(name) == SchemaV([k \in {"type"} |-> StrV(name)])

\* The object schema of struct { ID int `json:"id"` }.
ItemSchema ==
    SchemaV([k \in {"type", "properties", "required", "additionalProperties"} |->
        IF k = "type" THEN StrV("object")
        ELSE IF k = "properties" THEN SchemaV([n \in {<<"id">>} |-> TypeOnly("integer")])
        ELSE IF k = "required" THEN StrsV(<< <<"id">> >>)
        ELSE BoolV(opts.AllowAdditionalProperty)])

C12_Step ==
    /\ \A k \in 2..Len(stack) :
          /\ stack[k].fn = "parseArrayItemType" =>
                /\ stack[k - 1].fn = "JsonTypeOf"
                /\ IsSequence(Kind(stack[k - 1].t))
                /\ stack[k].t = stack[k - 1].t
                /\ stack[k].depth = stack[k - 1].depth + 1
          /\ stack[k - 1].fn = "parseArrayItemType" =>
                /\ stack[k].fn = "JsonTypeOf"
                /\ stack[k].depth = stack[k - 1].depth
                /\ Resolved(stack[k].t) = Resolved(Elem(stack[k - 1].t))
    /\ (At("parseArrayItemType", "elem") /\ ret.set /\ ret.err = NoError) =>
          /\ ret'.val = IF ret.val.dyn = "string" THEN TypeOnly(ret.val.val) ELSE ret.val
          /\ ret'.err = NoError
    /\ (At("JsonTypeOf", "array") /\ ret.set /\ ret.err = NoError) =>
          /\ ret'.val = ArrayOf(ret.val)
          /\ ret'.err = NoError
    /\ (status' = "returned" /\ input.api = "JsonTypeOf" /\ input.depth = 0
           /\ input.visited = {}) =>
          /\ (input.t = <<"slice", "Item">> /\ opts.MaxDepth >= 2) =>
                ret'.val = ArrayOf(ItemSchema) /\ ret'.err = NoError
          /\ (input.t = <<"array", "int">> /\ opts.MaxDepth >= 1) =>
                ret'.val = ArrayOf(TypeOnly("integer")) /\ ret'.err = NoError
          /\ (input.t = <<"slice", "slice", "slice", "ptr", "int">>
                 /\ opts.MaxDepth >= 3) =>
                /\ ret'.val = ArrayOf(ArrayOf(ArrayOf(TypeOnly("integer"))))
                /\ ret'.err = NoError

\* C12: JsonTypeOf of a slice or array type calls parseArrayItemType one level
\* down, which calls JsonTypeOf on the element type at that level; the result
\* is {"type": "array", "items": I}, I being {"type": name} when the element's
\* result is a primitive name and the element's schema itself otherwise.
\* []struct{ID int `json:"id"`} gives items = the object schema with required
\* ["id"], [3]int gives integer items, [][][]*int three nested arrays.
C12_ArrayItems == [][C12_Step]_vars

C12_Witness ==
    /\ Returned
    /\ input.api = "JsonTypeOf"
    /\ input.t = <<"slice", "Item">>
    /\ opts.MaxDepth = 2
    /\ ret.val = ArrayOf(ItemSchema)

Min(S) == CHOOSE x \in S : \A y \in S : x <= y

\* The text of tag before its first comma.
BeforeFirstComma(tag) ==
    LET commas == {k \in 1..Len(tag) : tag[k] = Comma} IN
    IF commas = {} THEN tag ELSE SubSeq(tag, 1, Min(commas) - 1)

\* C13: parseJSONTag returns the declared name and not optional for the empty
\* tag; otherwise the name is the text before the first comma, or the declared
\* name if that text is empty, and optional is true exactly when the text
\* between two commas, or after the last one, is omitempty; omitempty as the
\* first segment is a name.
C13_TagInterpretation ==
    (Returned /\ input.api = "parseJSONTag") =>
        /\ ret.name = IF BeforeFirstComma(input.tag) = <<>> THEN input.fieldName
                      ELSE BeforeFirstComma(input.tag)
        /\ ret.optional = MarkedOptional(input.tag)
        /\ input.tag = <<>> => ret.name = input.fieldName /\ ~ret.optional
        /\ BeforeFirstComma(input.tag) = Omitempty =>
              /\ ret.name = Omitempty
              /\ ret.optional = (\E k \in 3..Len(input.tag) :
                                    /\ input.tag[k] = "omitempty"
                                    /\ input.tag[k - 1] = Comma
                                    /\ k = Len(input.tag) \/ input.tag[k + 1] = Comma)

C13_Witness ==
    /\ Returned
    /\ input.api = "parseJSONTag"
    /\ input.fieldName = <<"MyField">>
    /\ input.tag = <<"my_field", Comma, "omitempty", Comma, "string">>
    /\ ret.name = <<"my_field">>
    /\ ret.optional

\* GenerateSchema is given a value whose type, with all pointers removed, is
\* not a struct.
NotARecord ==
    /\ input.api = "GenerateSchema"
    /\ input.t # NilType
    /\ FinitePointerChain(input.t)
    /\ Kind(Resolved(input.t)) # "struct"

\* C14: GenerateSchema of nil returns the error "cannot generate schema for
\* nil value" and no schema; GenerateSchema of a value whose type is not a
\* struct once all pointers are removed returns the error "the schema is
\* expected to be a Go struct" and no schema; in both cases nothing panics and
\* JsonTypeOf is never called.
C14_InvalidInputsRejected ==
    /\ (input.api = "GenerateSchema" /\ input.t = NilType) =>
          /\ ~Panicked
          /\ \A k \in 1..Len(stack) : stack[k].fn = "GenerateSchema"
          /\ Returned => ReturnedError(ErrNilValue)
    /\ NotARecord =>
          /\ ~Panicked
          /\ \A k \in 1..Len(stack) : stack[k].fn = "GenerateSchema"
          /\ Returned => ReturnedError(ErrNotStruct)

C14_Witness ==
    /\ NotARecord
    /\ input.t = <<"ptr", "ptr", "map">>
    /\ ReturnedError(ErrNotStruct)

----------------------------------------------------------------------------
(* Calls made from several goroutines. The variables input, opts, visited,    *)
(* stack, ret and status are those of the goroutine that takes the next      *)
(* step; parked holds those of the other goroutines. The types (structs) are *)
(* shared and never written.                                                 *)

Context(in, o, v, st, r, s) ==
    [input |-> in, opts |-> o, visited |-> v, stack |-> st, ret |-> r, status |-> s]

Running == Context(input, opts, visited, stack, ret, status)

Started(in, o) ==
    Context(in, o, in.visited, <<Frame(in.api, in.t, in.depth, in.visited)>>,
            NoRet, "running")

SharedVisited(own, current) == current

\* Each call has its own map: visited := make(map[reflect.Type]bool) in
\* GenerateSchema, the caller's argument in JsonTypeOf.
OwnVisited(own, current) == own

\* Another goroutine goes on. An unrecovered panic has ended the program.
Switch ==
    /\ status # "panicked"
    /\ \E k \in 1..Len(parked) :
         /\ parked[k].status = "running"
         /\ input' = parked[k].input
         /\ opts' = parked[k].opts
         /\ visited' = OwnVisited(parked[k].visited, visited)
         /\ stack' = parked[k].stack
         /\ ret' = parked[k].ret
         /\ status' = parked[k].status
         /\ parked' = [parked EXCEPT ![k] = Running]
    /\ UNCHANGED structs

MaxParked == 1

ConcFields ==
    <<Unexported("f", <<"ptr", "G">>, NoTag),
      Named("F", <<"string">>, SkipTag),
      Named("F", <<"Address">>, JsonOmitempty("x")),
      Embedded("BaseInfo", <<"ptr", "BaseInfo">>, NoTag)>>

ConcOptions ==
    {[AllowAdditionalProperty |-> FALSE, MaxDepth |-> d] : d \in {0, DefaultMaxDepth}}

ParkedCalls ==
    {Started(Input("GenerateSchema", <<"Company">>, <<>>, {}, 0), DefaultOptions),
     Started(Input("JsonTypeOf", <<"slice", "ptr", "Address">>, <<>>, {}, 0),
             DefaultOptions)}

ConcCalls ==
    ParkedCalls
    \cup {Started(Input("GenerateSchema", t, <<>>, {}, 0), DefaultOptions) :
            t \in {NilType, <<"ptr", "int">>, <<"Node">>, <<"ExtendedInfo">>, <<"G">>}}
    \cup {Started(Input("JsonTypeOf", t, <<>>, v, 0), o) :
            t \in {<<"Address">>, <<"slice", "map">>},
            v \in {{}, {<<"Address">>}}, o \in ConcOptions}
    \cup {Started(TagInput(<<"MyField">>, <<Comma, "omitempty">>), DefaultOptions)}

ConcInit ==
    /\ structs = StructsWith(ConcFields)
    /\ \E c \in ConcCalls :
         /\ input = c.input
         /\ opts = c.opts
         /\ visited = c.visited
         /\ stack = c.stack
         /\ ret = c.ret
         /\ status = c.status
    /\ parked \in UNION {[1..n -> ParkedCalls] : n \in 1..MaxParked}

ConcNext ==
    \/ Next
    \/ Switch

ConcSpec == ConcInit /\ [][ConcNext]_vars

----------------------------------------------------------------------------
(* The conversion as one recursive evaluation in which a pointer type stands *)
(* for the type it points to.                                                *)

Ok(val) == [val |-> val, err |-> NoError, crash |-> FALSE]

Fail(err) == [val |-> Nil, err |-> err, crash |-> FALSE]

Crash == [val |-> Nil, err |-> NoError, crash |-> TRUE]

NoReturn == [val |-> Nil, err |-> "no return", crash |-> FALSE]

OkFields(props, required) ==
    [props |-> props, required |-> required, err |-> NoError, crash |-> FALSE]

ObjectOf(props, required, allow) ==
    SchemaV([k \in {"type", "properties", "additionalProperties"}
                     \cup (IF required = <<>> THEN {} ELSE {"required"}) |->
        IF k = "type" THEN StrV("object")
        ELSE IF k = "properties" THEN SchemaV(props)
        ELSE IF k = "required" THEN StrsV(required)
        ELSE BoolV(allow)])

EmittedName(field) ==
    IF BeforeFirstComma(field.Tag) = <<>> THEN field.Name
    ELSE BeforeFirstComma(field.Tag)

RECURSIVE SchemaOf(_, _, _, _), FieldsFrom(_, _, _, _, _, _, _)
SchemaOf(t, v, d, o) ==
    IF d > o.MaxDepth THEN Fail(ErrCircularRef)
    ELSE LET u == Resolved(t)
             kind == Kind(u)
         IN IF kind = "ptr" THEN NoReturn
            ELSE IF kind = "struct"
            THEN IF u \in v THEN Fail(ErrCircularRef)
                 ELSE LET r == FieldsFrom(u, 1, v \cup {u}, d + 1, o, EmptyMap, <<>>) IN
                      IF r.crash THEN Crash
                      ELSE IF r.err # NoError THEN Fail(r.err)
                      ELSE Ok(ObjectOf(r.props, r.required, o.AllowAdditionalProperty))
            ELSE IF kind \in DOMAIN JsonNameOfKind THEN Ok(StrV(JsonNameOfKind[kind]))
            ELSE IF kind \in {"slice", "array"}
            THEN LET r == SchemaOf(Elem(u), v, d + 1, o) IN
                 IF r.err # NoError \/ r.crash THEN r
                 ELSE Ok(ArrayOf(IF r.val.dyn = "string" THEN TypeOnly(r.val.val)
                                 ELSE r.val))
            ELSE Fail(ErrUnsupportedType)

FieldsFrom(t, i, v, d, o, props, required) ==
    IF Kind(t) # "struct" THEN [OkFields(EmptyMap, <<>>) EXCEPT !.crash = TRUE]
    ELSE IF i > NumField(t) THEN OkFields(props, required)
    ELSE LET field == Field(t, i) IN
         IF field.PkgPath # "" THEN FieldsFrom(t, i + 1, v, d, o, props, required)
         ELSE IF field.Anonymous
         THEN LET r == FieldsFrom(field.Type, 1, v, d, o, EmptyMap, <<>>) IN
              IF r.err # NoError \/ r.crash THEN r
              ELSE FieldsFrom(t, i + 1, v, d, o, LastWins(props, r.props),
                              required \o r.required)
         ELSE IF field.Tag = <<"-">>
         THEN FieldsFrom(t, i + 1, v, d, o, props, required)
         ELSE LET r == SchemaOf(field.Type, v, d, o) IN
              IF r.err # NoError \/ r.crash
              THEN [OkFields(EmptyMap, <<>>) EXCEPT !.err = r.err, !.crash = r.crash]
              ELSE FieldsFrom(t, i + 1, v, d, o,
                              LastWins(props,
                                       EmittedName(field) :>
                                           (IF MarkedOptional(field.Tag)
                                            THEN NullUnionOf(r.val) ELSE Plain(r.val))),
                              Append(required, EmittedName(field)))

GenerateSchemaOf(t, options) ==
    IF t = NilType THEN Fail(ErrNilValue)
    ELSE IF ~FinitePointerChain(t) THEN NoReturn
    ELSE IF Kind(Resolved(t)) # "struct" THEN Fail(ErrNotStruct)
    ELSE SchemaOf(Resolved(t), {}, 0,
                  [AllowAdditionalProperty |-> FALSE,
                   MaxDepth |-> IF options = <<>> THEN DefaultMaxDepth
                                ELSE options[Len(options)]])

\* What the call described by in returns when nothing else runs.
OutcomeAlone(in, o) ==
    IF in.api = "GenerateSchema" THEN GenerateSchemaOf(in.t, in.options)
    ELSE SchemaOf(in.t, in.visited, in.depth, o)

Outcome == [val |-> ret.val, err |-> ret.err, crash |-> Panicked]

\* C15: the outcome of GenerateSchema and of JsonTypeOf, a value or an error,
\* is the outcome of the conversion in which every pointer type, at the root,
\* as a named field's type or as an element type, is replaced by the type it
\* points to: pointer layers change neither the schema (no null union comes
\* from a pointer), nor the error, nor the depth; once JsonTypeOf has resolved
\* its type, the type is not a pointer.
C15_PointersTransparent ==
    /\ (Done /\ input.api \in {"GenerateSchema", "JsonTypeOf"}) =>
          Outcome = OutcomeAlone(input, opts)
    /\ \A k \in 1..Len(stack) :
          (stack[k].fn = "JsonTypeOf" /\ stack[k].pc # "enter") =>
              /\ Kind(stack[k].t) # "ptr"
              /\ Resolved(stack[k].t) = stack[k].t

C15_Witness ==
    /\ ReturnedSchema
    /\ input.api = "GenerateSchema"
    /\ input.t = <<"ptr", "CollectionWithPointers">>
    /\ Outcome = GenerateSchemaOf(<<"CollectionWithPointers">>, input.options)

SchemaKeys == {"type", "properties", "required", "additionalProperties", "items", "anyOf"}

RECURSIVE ClosedObjects(_, _)
ClosedObjects(m, allow) ==
    /\ DOMAIN m \subseteq SchemaKeys
    /\ ("type" \in DOMAIN m /\ m["type"] = StrV("object")) =>
          /\ "additionalProperties" \in DOMAIN m
          /\ m["additionalProperties"] = BoolV(allow)
          /\ "properties" \in DOMAIN m
          /\ m["properties"].dyn = "Schema"
    /\ "properties" \in DOMAIN m =>
          /\ m["type"] = StrV("object")
          /\ \A k \in DOMAIN m["properties"].val :
                /\ m["properties"].val[k].dyn = "Schema"
                /\ ClosedObjects(m["properties"].val[k].val, allow)
    /\ "items" \in DOMAIN m =>
          /\ m["items"].dyn = "Schema"
          /\ ClosedObjects(m["items"].val, allow)
    /\ "anyOf" \in DOMAIN m =>
          \A k \in 1..Len(m["anyOf"].val) : ClosedObjects(m["anyOf"].val[k], allow)

\* C16: in every schema a call returns, every node has only the keys type,
\* properties, required, additionalProperties, items and anyOf; every object
\* node has a properties map and additionalProperties equal to
\* AllowAdditionalProperty of the options, which is false for every call made
\* through GenerateSchema.
C16_ObjectsAreClosed ==
    ReturnedSchema =>
        /\ ClosedObjects(ret.val.val, opts.AllowAdditionalProperty)
        /\ input.api = "GenerateSchema" => ClosedObjects(ret.val.val, FALSE)

C16_Witness ==
    /\ ReturnedSchema
    /\ input.api = "JsonTypeOf"
    /\ opts.AllowAdditionalProperty
    /\ input.t = <<"Employee">>
    /\ ret.val.val["properties"].val[<<"companies">>].val["items"].val
           ["properties"].val[<<"address">>].val["additionalProperties"] = BoolV(TRUE)

Goroutines == <<Running>> \o parked

\* The types marked by the open JsonTypeOf calls of goroutine c.
OwnMarks(c) == {c.stack[k].t : k \in {j \in 1..Len(c.stack) : c.stack[j].marked}}

\* C17: with two or more calls in progress, each with its own visited and
\* options, under every interleaving of their steps: a call that has ended has
\* the outcome it has when it runs alone, and the visited set a call works
\* with holds the caller's types and the types its own open calls marked,
\* never a type marked by another call.
C17_NoInterference ==
    \A g \in 1..Len(Goroutines) :
        LET c == Goroutines[g] IN
        c.input.api \in {"GenerateSchema", "JsonTypeOf"} =>
            /\ c.status \in {"returned", "panicked"} =>
                  [val |-> c.ret.val, err |-> c.ret.err, crash |-> c.status = "panicked"]
                      = OutcomeAlone(c.input, c.opts)
            /\ c.visited = c.input.visited \cup OwnMarks(c)

C17_Witness ==
    /\ parked # <<>>
    /\ input.t = <<"Company">>
    /\ ReturnedSchema
    /\ parked[1].input.t = <<"slice", "ptr", "Address">>
    /\ parked[1].status = "running"
    /\ <<"Address">> \in parked[1].visited

\* The object schema of Address (AddressSchema of the fixtures).
AddressSchema ==
    SchemaV([k \in {"type", "properties", "required", "additionalProperties"} |->
        IF k = "type" THEN StrV("object")
        ELSE IF k = "properties"
        THEN SchemaV([n \in {<<"street">>, <<"city">>, <<"zip_code">>} |->
                 IF n = <<"zip_code">>
                 THEN SchemaV([j \in {"type"} |-> StrsV(<<"string", "null">>)])
                 ELSE TypeOnly("string")])
        ELSE IF k = "required" THEN StrsV(<< <<"street">>, <<"city">>, <<"zip_code">> >>)
        ELSE BoolV(opts.AllowAdditionalProperty)])

\* The named, non-skipped fields of t that hold an Address or a sequence of them.
AddressFields(t) ==
    {k \in 1..NumField(t) :
        /\ TaggedField(Field(t, k))
        /\ Field(t, k).Tag # SkipTag
        /\ Resolved(Field(t, k).Type) \in {<<"Address">>, <<"slice", "Address">>}}

\* C18: a struct in which Address occurs twice or more, as the type of sibling
\* fields or as the element type of a sequence field, none of them inside
\* Address itself, is converted to a schema when nothing else fails, and the
\* schema of Address stands in full at each of its occurrences.
C18_RepeatedTypeIsNotACycle ==
    (Done /\ StructConversion /\ Acyclic(RootType) /\ Convertible(RootType)
          /\ opts.MaxDepth >= Level(RootType, 0)
          /\ Cardinality(AddressFields(RootType)) >= 2) =>
        /\ ReturnedSchema
        /\ \A k \in AddressFields(RootType) :
              LET field == Field(RootType, k)
                  base == IF IsSequence(Kind(field.Type)) THEN ArrayOf(AddressSchema)
                          ELSE AddressSchema
                  later == {j \in (k + 1)..NumField(RootType) :
                              /\ TaggedField(Field(RootType, j))
                              /\ EmittedName(Field(RootType, j)) = EmittedName(field)}
              IN later = {} =>
                   ret.val.val["properties"].val[EmittedName(field)] =
                       IF MarkedOptional(field.Tag) THEN NullUnionOf(base) ELSE base

C18_Witness ==
    /\ ReturnedSchema
    /\ StructConversion
    /\ RootType = <<"G">>
    /\ NumField(RootType) = 2
    /\ Field(RootType, 1).Type = <<"Address">>
    /\ Field(RootType, 2).Type = <<"slice", "Address">>
    /\ ret.val.val["properties"].val[<<"F1">>] = AddressSchema
    /\ ret.val.val["properties"].val[<<"F2">>] = ArrayOf(AddressSchema)

C19_Step ==
    /\ (status = "running" /\ ret.set /\ ret.err # NoError) =>
          /\ stack' = Pop
          /\ ret'.set
          /\ ret'.err = ret.err
          /\ ret'.val = Nil
          /\ ret'.props = EmptyMap
          /\ ret'.required = <<>>
    /\ (status' = "returned" /\ StructConversion /\ RootType = <<"G">>
           /\ NumField(RootType) >= 2 /\ TaggedField(Field(RootType, 1))
           /\ Field(RootType, 1).Tag # SkipTag) =>
          LET first == Field(RootType, 1).Type IN
          /\ (first = <<"map">> /\ opts'.MaxDepth >= 1) =>
                ret'.err = ErrUnsupportedType /\ ret'.val = Nil
          /\ (first = <<"slice", "map">> /\ opts'.MaxDepth >= 2) =>
                ret'.err = ErrUnsupportedType /\ ret'.val = Nil
          /\ first \in {<<"ptr", "G">>, <<"slice", "G">>, <<"ptr", "H">>} =>
                ret'.err = ErrCircularRef /\ ret'.val = Nil

\* C19: once a call has returned an error, every further step is the return of
\* the next enclosing call with that same error and no value, so nothing
\* after the failing field or element is looked at; a struct whose first
\* field is a map (or a sequence of maps) gives ErrUnsupportedType whatever its
\* second field is, and a struct whose first field refers back to the struct
\* gives ErrCircularRef whatever its second field is.
C19_FirstFailureDecides == [][C19_Step]_vars

C19_Witness ==
    /\ ReturnedError(ErrUnsupportedType)
    /\ StructConversion
    /\ RootType = <<"G">>
    /\ NumField(RootType) = 2
    /\ Field(RootType, 1).Type = <<"slice", "map">>
    /\ Field(RootType, 2).Type = <<"ptr", "G">>
    /\ ~Field(RootType, 2).Anonymous
    /\ Field(RootType, 2).PkgPath = ""

\* The emitted names of the fields of t from the i-th on, in declaration
\* order, those of an anonymous struct field standing in its place.
RECURSIVE NamesInOrder(_, _)
NamesInOrder(t, i) ==
    IF i > NumField(t) THEN <<>>
    ELSE LET field == Field(t, i) IN
         (IF ~IsExamined(field) THEN <<>>
          ELSE IF field.Anonymous THEN NamesInOrder(field.Type, 1)
          ELSE <<EmittedName(field)>>)
         \o NamesInOrder(t, i + 1)

\* C20: required of the object returned for a struct lists the emitted names
\* in the order the fields are declared, the names of an anonymous struct
\* field standing, in their own order, where that field is declared;
\* ExtendedInfo (BaseInfo{id, created_at}, title, content) gives
\* [id, created_at, title, content].
C20_RequiredInDeclarationOrder ==
    (ReturnedSchema /\ StructConversion) =>
        /\ IF NamesInOrder(RootType, 1) = <<>>
           THEN "required" \notin DOMAIN ret.val.val
           ELSE ret.val.val["required"] = StrsV(NamesInOrder(RootType, 1))
        /\ RootType = <<"ExtendedInfo">> =>
              ret.val.val["required"].val =
                  << <<"id">>, <<"created_at">>, <<"title">>, <<"content">> >>

C20_Witness ==
    /\ ReturnedSchema
    /\ StructConversion
    /\ RootType = <<"G">>
    /\ NumField(RootType) = 2
    /\ ~Field(RootType, 1).Anonymous
    /\ Field(RootType, 2).Anonymous
    /\ ret.val.val["required"].val = << <<"F1">>, <<"id">>, <<"created_at">> >>

\* No name is collected from t: every field is unexported, skipped, or an
\* anonymous struct from which no name is collected.
NoNameCollected(t) == EmbeddedAreStructs(t) /\ NamesInOrder(t, 1) = <<>>

\* In every object node of schema m, required is present exactly when
\* properties is not empty, and is then not empty.
RECURSIVE RequiredWhenNames(_)
RequiredWhenNames(m) ==
    /\ "properties" \in DOMAIN m =>
          /\ "required" \in DOMAIN m <=> DOMAIN m["properties"].val # {}
          /\ "required" \in DOMAIN m =>
                m["required"].dyn = "[]string" /\ m["required"].val # <<>>
          /\ \A k \in DOMAIN m["properties"].val :
                RequiredWhenNames(m["properties"].val[k].val)
    /\ "items" \in DOMAIN m => RequiredWhenNames(m["items"].val)
    /\ "anyOf" \in DOMAIN m =>
          \A k \in 1..Len(m["anyOf"].val) : RequiredWhenNames(m["anyOf"].val[k])

C21_Step ==
    (At("JsonTypeOf", "struct") /\ ret.set /\ ret.err = NoError) =>
        /\ "required" \in DOMAIN ret'.val.val <=> ret.required # <<>>
        /\ ret.required # <<>> => ret'.val.val["required"] = StrsV(ret.required)

C21_Returned ==
    /\ ReturnedSchema => RequiredWhenNames(ret.val.val)
    /\ (Done /\ StructConversion /\ NoNameCollected(RootType)) =>
          /\ ReturnedSchema
          /\ ret.val = ObjectOf(EmptyMap, <<>>, opts.AllowAdditionalProperty)
          /\ DOMAIN ret.val.val = {"type", "properties", "additionalProperties"}

\* C21: the object JsonTypeOf builds for a struct has the key required exactly
\* when structProperties collected at least one name, and the key then holds
\* the collected names; a struct from which no name is collected (no exported,
\* non-skipped field, directly or through anonymous structs) is converted, for
\* every MaxDepth from 0 on, to an object with empty properties,
\* additionalProperties as the options say, and no required key.
C21_RequiredOnlyWhenCollected == [][C21_Step]_vars /\ []C21_Returned

C21_Witness ==
    /\ ReturnedSchema
    /\ input.api = "JsonTypeOf"
    /\ StructConversion
    /\ RootType = <<"Blank">>
    /\ opts.MaxDepth = 0
    /\ opts.AllowAdditionalProperty
    /\ "required" \notin DOMAIN ret.val.val

\* JsonTypeOf has just been entered below the deepest level allowed.
EnteredTooDeep ==
    /\ status = "running"
    /\ stack # <<>>
    /\ Top.fn = "JsonTypeOf"
    /\ Top.pc = "enter"
    /\ Top.depth > opts.MaxDepth

C22_Step ==
    EnteredTooDeep =>
        /\ stack' = Pop
        /\ ret' = Result(Nil, ErrCircularRef)
        /\ visited' = visited

C22_Returned ==
    /\ EnteredTooDeep =>
          /\ ~Top.marked
          /\ visited = Top.entered
          /\ Len(stack) = 1 => Top.t = input.t
          /\ Len(stack) > 1 =>
                LET caller == stack[Len(stack) - 1] IN
                Top.t = IF caller.fn = "parseArrayItemType" THEN Elem(caller.t)
                        ELSE Field(caller.t, caller.i).Type
    /\ (Done /\ input.api = "JsonTypeOf" /\ input.depth > opts.MaxDepth) =>
          /\ ReturnedError(ErrCircularRef)
          /\ visited = input.visited

\* C22: a call of JsonTypeOf entered with depth > MaxDepth returns
\* ErrCircularRef and no value as its only step: its type is still the one the
\* caller passed (pointers not removed), nothing is marked in visited, no kind
\* is looked at. So JsonTypeOf called at depth 1 with MaxDepth 0 gives
\* ErrCircularRef for an int, for a map and for a struct already in visited,
\* never a schema and never ErrUnsupportedType.
C22_DepthCheckedFirst == [][C22_Step]_vars /\ []C22_Returned

C22_Witness ==
    /\ ReturnedError(ErrCircularRef)
    /\ input.api = "JsonTypeOf"
    /\ input.t = <<"ptr", "float64">>
    /\ input.depth = 1
    /\ opts.MaxDepth = 0

\* The open JsonTypeOf calls, outermost first, as indices of the stack.
DispatchFrames == {k \in 1..Len(stack) : stack[k].fn = "JsonTypeOf"}

\* The JsonTypeOf call that encloses the frame at k most closely, 0 if none.
RECURSIVE Enclosing(_)
Enclosing(k) ==
    IF k <= 1 THEN 0
    ELSE IF stack[k - 1].fn = "JsonTypeOf" THEN k - 1
    ELSE Enclosing(k - 1)

\* A conversion started at level 0 with nothing marked, of a type whose
\* pointer chain ends; through GenerateSchema the type is a struct.
FromRoot ==
    /\ input.api \in {"GenerateSchema", "JsonTypeOf"}
    /\ input.t # NilType
    /\ FinitePointerChain(input.t)
    /\ input.api = "GenerateSchema" => Kind(RootType) = "struct"
    /\ input.depth = 0
    /\ input.visited = {}

C23_Levels ==
    /\ stack # <<>> => stack[1].depth = input.depth
    /\ \A k \in 2..Len(stack) :
          LET frame == stack[k]
              caller == stack[k - 1]
          IN /\ caller.fn = "GenerateSchema" =>
                   frame.fn = "JsonTypeOf" /\ frame.depth = 0
             /\ caller.fn = "JsonTypeOf" =>
                   /\ frame.fn = IF Kind(caller.t) = "struct" THEN "structProperties"
                                 ELSE "parseArrayItemType"
                   /\ frame.depth = caller.depth + 1
             /\ caller.fn = "parseArrayItemType" =>
                   frame.fn = "JsonTypeOf" /\ frame.depth = caller.depth
             /\ caller.fn = "structProperties" =>
                   /\ frame.fn = IF caller.pc = "embedded" THEN "structProperties"
                                 ELSE "JsonTypeOf"
                   /\ frame.depth = caller.depth
    /\ (stack # <<>> /\ Top.fn = "JsonTypeOf" /\ Enclosing(Len(stack)) # 0) =>
          Top.depth = stack[Enclosing(Len(stack))].depth + 1

\* C23: the first JsonTypeOf call runs at the depth the caller gave (0 through
\* GenerateSchema); JsonTypeOf passes depth + 1 to structProperties and to
\* parseArrayItemType, which pass their depth on unchanged, to JsonTypeOf for
\* a named field or an element and to structProperties for an anonymous
\* field: a JsonTypeOf call runs one level below the JsonTypeOf call that
\* encloses it, and an anonymous struct adds no level. A conversion from level 0 of a type without cycles, unsupported
\* kinds or anonymous non-structs returns a schema exactly when the deepest
\* JsonTypeOf level of the type is at most MaxDepth, and ErrCircularRef otherwise.
C23_DepthAccounting ==
    /\ C23_Levels
    /\ (Done /\ FromRoot /\ Acyclic(RootType) /\ Convertible(RootType)) =>
          /\ (Returned /\ ret.err = NoError) <=> Level(RootType, 0) <= opts.MaxDepth
          /\ ret.err # NoError => ReturnedError(ErrCircularRef)

C23_Witness ==
    /\ ReturnedError(ErrCircularRef)
    /\ input.api = "JsonTypeOf"
    /\ input.t = <<"slice", "slice", "slice", "ptr", "int">>
    /\ input.depth = 0
    /\ opts.MaxDepth = 2
    /\ Level(RootType, 0) = 3

\* structProperties is about to go into an exported anonymous field.
AtEmbeddedField ==
    /\ AtField
    /\ Field(Top.t, Top.i).PkgPath = ""
    /\ Field(Top.t, Top.i).Anonymous

\* The frames of structProperties that were entered for an anonymous field.
EmbeddedFrames ==
    {k \in 2..Len(stack) :
        stack[k].fn = "structProperties" /\ stack[k - 1].fn = "structProperties"}

C24_GuardedStep ==
    (AtEmbeddedField /\ Field(Top.t, Top.i).Type \in visited) =>
        /\ stack' = Pop
        /\ ret'.err = ErrCircularRef

\* C24 as stated: structProperties entered for an anonymous field fails with
\* ErrCircularRef when the field's type is marked, and otherwise keeps the
\* type marked in visited for as long as its expansion is open.
C24_EmbeddedCheckedAndMarked ==
    /\ [][C24_GuardedStep]_vars
    /\ [](\A k \in EmbeddedFrames : stack[k].t \in visited)

C24_Step ==
    /\ AtEmbeddedField =>
          /\ visited' = visited
          /\ stack' = Append(SetTop([Top EXCEPT !.pc = "embedded"]),
                             Frame("structProperties", Field(Top.t, Top.i).Type,
                                   Top.depth, visited))
    /\ (At("structProperties", "embedded") /\ ret.set) => visited' = visited

C24_Marks ==
    /\ \A k \in EmbeddedFrames :
          /\ ~stack[k].marked
          /\ stack[k].t \in visited =>
                \/ stack[k].t \in input.visited
                \/ \E j \in 1..(k - 1) :
                      /\ stack[j].fn = "JsonTypeOf"
                      /\ stack[j].marked
                      /\ stack[j].t = stack[k].t
    /\ (Done /\ FromRoot /\ RootType = <<"Outer">>) => ReturnedError(ErrCircularRef)

\* C24: only JsonTypeOf checks and marks. structProperties entered for an
\* anonymous field is entered whether its type is marked or not, and leaves
\* visited as it is on entry and on return: the anonymous struct type is in
\* visited only when the caller passed it or an enclosing JsonTypeOf call of
\* that type marked it. A cycle that goes through an anonymous struct (Outer
\* holds *Inner, Inner embeds Outer) still ends in ErrCircularRef, returned by
\* the JsonTypeOf call of the next named field that leads to a marked type.
C24_EmbeddedNeitherCheckedNorMarked == [][C24_Step]_vars /\ []C24_Marks

C24_Witness ==
    /\ status = "running"
    /\ input.t = <<"Outer">>
    /\ Len(stack) > 2
    /\ Top.fn = "JsonTypeOf"
    /\ Len(stack) - 1 \in EmbeddedFrames
    /\ stack[Len(stack) - 1].t = <<"Outer">>
    /\ stack[Len(stack) - 1].pc = "field"
    /\ <<"Outer">> \in visited

\* The evaluation of FieldsFrom over a sequence of field declarations of the
\* struct type being converted.
RECURSIVE FieldsOver(_, _, _, _, _, _)
FieldsOver(fields, v, d, o, props, required) ==
    IF fields = <<>> THEN OkFields(props, required)
    ELSE LET field == Head(fields) IN
         IF field.PkgPath # "" THEN FieldsOver(Tail(fields), v, d, o, props, required)
         ELSE IF field.Anonymous
         THEN LET r == FieldsFrom(field.Type, 1, v, d, o, EmptyMap, <<>>) IN
              IF r.err # NoError \/ r.crash THEN r
              ELSE FieldsOver(Tail(fields), v, d, o, LastWins(props, r.props),
                              required \o r.required)
         ELSE IF field.Tag = <<"-">>
         THEN FieldsOver(Tail(fields), v, d, o, props, required)
         ELSE LET r == SchemaOf(field.Type, v, d, o) IN
              IF r.err # NoError \/ r.crash
              THEN [OkFields(EmptyMap, <<>>) EXCEPT !.err = r.err, !.crash = r.crash]
              ELSE FieldsOver(Tail(fields), v, d, o,
                              LastWins(props,
                                       EmittedName(field) :>
                                           (IF MarkedOptional(field.Tag)
                                            THEN NullUnionOf(r.val) ELSE Plain(r.val))),
                              Append(required, EmittedName(field)))

\* What the conversion from level 0 of struct type t returns if t is declared
\* with the given fields.
ConversionOver(t, fields, o) ==
    IF 0 > o.MaxDepth THEN Fail(ErrCircularRef)
    ELSE LET r == FieldsOver(fields, {t}, 1, o, EmptyMap, <<>>) IN
         IF r.crash THEN Crash
         ELSE IF r.err # NoError THEN Fail(r.err)
         ELSE Ok(ObjectOf(r.props, r.required, o.AllowAdditionalProperty))

IsUnexported(field) == field.PkgPath # ""

\* The declaration of t without the fields that satisfy Omitted.
Without(t, Omitted(_)) ==
    LET Kept(field) == ~Omitted(field) IN SelectSeq(structs[t[1]], Kept)

AnySkipTagged(field) == IsUnexported(field) \/ field.Tag = SkipTag

NamedSkipTagged(field) ==
    IsUnexported(field) \/ (~field.Anonymous /\ field.Tag = SkipTag)

\* The conversion of G has ended and some field of G satisfies Omitted.
EndedWith(Omitted(_)) ==
    /\ Done
    /\ StructConversion
    /\ RootType = <<"G">>
    /\ \E k \in 1..NumField(RootType) : Omitted(Field(RootType, k))

C25_AnyStep ==
    (AtField /\ AnySkipTagged(Field(Top.t, Top.i))) =>
        /\ stack' = SetTop(NextField(Top))
        /\ ret' = ret
        /\ visited' = visited

C25_Step ==
    (AtField /\ NamedSkipTagged(Field(Top.t, Top.i))) =>
        /\ stack' = SetTop(NextField(Top))
        /\ ret' = ret
        /\ visited' = visited

C25_Frames ==
    \A k \in 2..Len(stack) :
        stack[k - 1].fn = "structProperties" =>
            ~NamedSkipTagged(Field(stack[k - 1].t, stack[k - 1].i))

OpenExpansions == {k \in DispatchFrames : stack[k].pc = "struct"}

\* C26: in a call of GenerateSchema, or of JsonTypeOf with an empty visited
\* map, visited is at every step exactly the set of the struct types of the
\* JsonTypeOf calls that are inside their struct case; no two of these calls
\* have the same type; and the number of marked types is at most the depth of
\* the running call plus one.
C26_VisitedIsOpenPath ==
    (input.api \in {"GenerateSchema", "JsonTypeOf"} /\ input.visited = {}) =>
        /\ visited = {stack[k].t : k \in OpenExpansions}
        /\ \A j, k \in OpenExpansions : stack[j].t = stack[k].t => j = k
        /\ \A k \in OpenExpansions : Kind(stack[k].t) = "struct" /\ stack[k].marked
        /\ stack # <<>> => Cardinality(visited) <= Top.depth + 1

C26_Witness ==
    /\ input.api = "GenerateSchema"
    /\ input.t = <<"Employee">>
    /\ At("JsonTypeOf", "struct")
    /\ ret.set
    /\ visited = {<<"Employee">>, <<"Company">>, <<"Address">>}
    /\ Top.t = <<"Address">>
    /\ Cardinality(visited) = Cardinality(OpenExpansions)

\* C27: in a call of GenerateSchema, or of JsonTypeOf at depth 0, with
\* MaxDepth >= 0: no JsonTypeOf call has a depth above MaxDepth + 1; a
\* JsonTypeOf call with a depth above MaxDepth is the innermost call and has
\* done nothing yet; the stack holds at most MaxDepth + 2 JsonTypeOf calls.
C27_DepthBoundsTheStack ==
    (input.api \in {"GenerateSchema", "JsonTypeOf"} /\ input.depth = 0
          /\ opts.MaxDepth >= 0) =>
        /\ \A k \in DispatchFrames :
              /\ stack[k].depth <= opts.MaxDepth + 1
              /\ stack[k].depth > opts.MaxDepth =>
                    k = Len(stack) /\ stack[k].pc = "enter" /\ ~stack[k].marked
        /\ Cardinality(DispatchFrames) <= opts.MaxDepth + 2

C27_Witness ==
    /\ input.api = "GenerateSchema"
    /\ input.t = <<"DeepStruct">>
    /\ opts.MaxDepth = 2
    /\ Cardinality(DispatchFrames) = 4
    /\ At("JsonTypeOf", "enter")
    /\ Top.depth = 3
    /\ Top.t = <<"Level3">>

\* In every object node of schema m, required has no name twice and as many
\* names as properties has keys.
RECURSIVE RequiredOnce(_)
RequiredOnce(m) ==
    /\ ("properties" \in DOMAIN m /\ "required" \in DOMAIN m) =>
          LET required == m["required"].val IN
          /\ \A j, k \in 1..Len(required) : required[j] = required[k] => j = k
          /\ Len(required) = Cardinality(DOMAIN m["properties"].val)
    /\ "properties" \in DOMAIN m =>
          \A k \in DOMAIN m["properties"].val :
              RequiredOnce(m["properties"].val[k].val)
    /\ "items" \in DOMAIN m => RequiredOnce(m["items"].val)
    /\ "anyOf" \in DOMAIN m =>
          \A k \in 1..Len(m["anyOf"].val) : RequiredOnce(m["anyOf"].val[k])

\* C28 as stated: in every returned schema, required of every object node
\* holds each name once, and has as many names as properties has keys, also
\* when an anonymous struct and the struct that embeds it emit the same name
\* and when two fields of a struct have the same name in their tags.
C28_RequiredHasNoDuplicates == ReturnedSchema => RequiredOnce(ret.val.val)

----------------------------------------------------------------------------
(* The same call made twice, by two goroutines whose steps interleave.       *)

TwinCalls ==
    ConcCalls
    \cup {Started(Input("GenerateSchema", t, options, {}, 0), DefaultOptions) :
            t \in {<<"Employee">>, <<"ExtendedInfo">>, <<"Outer">>},
            options \in {<<>>, <<1>>, <<1, 2>>}}
    \cup {Started(Input("JsonTypeOf", <<"NestedStruct">>, <<>>, {}, d),
                  [AllowAdditionalProperty |-> TRUE, MaxDepth |-> 1]) : d \in 0..1}

TwinInit ==
    /\ structs = StructsWith(ConcFields)
    /\ \E c \in TwinCalls :
         /\ input = c.input
         /\ opts = c.opts
         /\ visited = c.visited
         /\ stack = c.stack
         /\ ret = c.ret
         /\ status = c.status
         /\ parked = <<c>>

TwinSpec == TwinInit /\ [][ConcNext]_vars

\* Goroutine c is inside the traversal: JsonTypeOf has been called.
InTraversal(c) == \E k \in 1..Len(c.stack) : c.stack[k].fn = "JsonTypeOf"

C29_Step ==
    IF parked' = parked
    THEN /\ InTraversal(Running) => opts' = opts
         /\ structs' = structs
         /\ input' = input
    ELSE Range(<<Running>> \o parked) =
             {Context(input', opts', visited', stack', ret', status')} \cup Range(parked')

C29_Twins ==
    \A g, h \in 1..Len(Goroutines) :
        LET c == Goroutines[g]
            d == Goroutines[h]
        IN (c.input = d.input /\ c.status = "returned" /\ d.status = "returned") =>
              /\ c.ret = d.ret
              /\ c.opts = d.opts
              /\ c.visited = d.visited

Untagged(t) ==
    [k \in 1..NumField(t) |->
        IF Field(t, k).Anonymous THEN [Field(t, k) EXCEPT !.Tag = NoTag]
        ELSE Field(t, k)]

TaggedEmbedded(field) ==
    field.PkgPath = "" /\ field.Anonymous /\ field.Tag # NoTag

C30_Frames ==
    \A k \in 1..Len(stack) :
        (stack[k].fn = "structProperties" /\ stack[k].pc = "embedded") =>
            /\ Field(stack[k].t, stack[k].i).Anonymous
            /\ k < Len(stack) =>
                  /\ stack[k + 1].fn = "structProperties"
                  /\ stack[k + 1].t = Field(stack[k].t, stack[k].i).Type

====
